---- MODULE Spec2Model ----
(***************************************************************************)
(* Terminus control plane: prepaid balance ledger, chat handler, deposit   *)
(* verification, job dispatcher, agent-job dispatch and the job queue.     *)
(*                                                                         *)
(* The control plane is a single Node.js process: every handler runs to    *)
(* its next await without interleaving, so each action below is the code   *)
(* between two suspension points.                                          *)
(*                                                                         *)
(* Money is counted in whole units of 0.05 USDC (queryPriceUSDC = 0.10     *)
(* USDC = 2 units), so that ledger arithmetic is exact.                    *)
(***************************************************************************)
EXTENDS Integers, Sequences, FiniteSets, TLC

\* ------------------------------------------------------------------------
\* Bounds of the model
\* ------------------------------------------------------------------------
MaxChats == 2
MaxDeposits == 2
MaxRuns == 2
MaxAgentJobs == 1

\* ------------------------------------------------------------------------
\* Ledger: configuration and inputs
\* ------------------------------------------------------------------------
queryPriceUSDC == 2

WalletInputs == {"0xA", "0xb"}

toLowerCase(w) == IF w = "0xA" THEN "0xa" ELSE w

TxIds == {"t1", "t3"}

\* What the chain answers for a transaction hash: kind "ok" is a confirmed
\* USDC transfer to the orchestrator wallet.
Receipt(tx) ==
    CASE tx = "t1" -> [kind |-> "ok", from |-> "0xa", amount |-> 3]
      [] tx = "t4" -> [kind |-> "failed", from |-> "0xa", amount |-> 3]
      [] tx = "t5" -> [kind |-> "elsewhere", from |-> "0xa", amount |-> 3]
      [] tx = "t6" -> [kind |-> "throws", from |-> "", amount |-> 0]
      [] OTHER     -> [kind |-> "notfound", from |-> "", amount |-> 0]

\* Transactions of every kind: confirmed and paid to the orchestrator wallet,
\* unknown to the chain, reverted, paid to another address, and one for
\* which the RPC call throws.
ReceiptTxIds == {"t1", "t3", "t4", "t5", "t6"}

ChatIds == 1..MaxChats
DepIds == 1..MaxDeposits

\* ------------------------------------------------------------------------
\* Orchestrator
\* ------------------------------------------------------------------------
\* Four of the fifteen registered agents, in the order of the registry.
AgentOrder == <<"travel-planner", "budget-planner", "health-advisor", "food-expert">>

AGENTS == {AgentOrder[i] : i \in 1..Len(AgentOrder)}

\* selectedAgents as analyzeIntent can return them: the planner's list taken
\* as is, or the keyword fallback (never empty).
IntentSelections ==
    { <<>>, <<"budget-planner", "travel-planner">>,
      <<"unknown-agent">>, <<"travel-planner", "unknown-agent">> }

NoResponse == [success |-> FALSE, agentsUsed |-> <<>>, agentResults |-> <<>>]

IsKnownAgent(a) == a \in AGENTS

\* executeAgent: the agent's result; for the agents of failing its catch
\* block runs and the summary is "Error: ...".
executeAgent(agentId, failing) ==
    [agentId |-> agentId, isError |-> agentId \in failing]

RECURSIVE MapAgents(_, _)
MapAgents(ids, failing) ==
    IF ids = <<>> THEN <<>>
    ELSE <<executeAgent(Head(ids), failing)>> \o MapAgents(Tail(ids), failing)

\* executeMultiAgent on a given intent and a given set of failing agents.
executeMultiAgent(selectedAgents, failing) ==
    IF Len(selectedAgents) = 0
    THEN [success |-> FALSE, agentsUsed |-> <<>>, agentResults |-> <<>>]
    ELSE [success |-> TRUE,
          agentsUsed |-> selectedAgents,
          agentResults |-> MapAgents(SelectSeq(selectedAgents, IsKnownAgent), failing)]

MultiAgentOutcomes ==
    { executeMultiAgent(sel, failing) : sel \in IntentSelections,
                                        failing \in SUBSET {"travel-planner", "budget-planner"} }

\* What the intent planner's generateText call can give: an exception, text
\* without a JSON object, or JSON whose "agents" is one of these lists.
PlannerLists ==
    { <<>>, <<"travel-planner">>, <<"budget-planner", "travel-planner">>,
      <<"travel-planner", "unknown-agent">>,
      <<"travel-planner", "budget-planner", "health-advisor", "food-expert">> }

PlannerOutputs == {<<"throws">>, <<"no-json">>} \cup {<<"json", l>> : l \in PlannerLists}

slice(list, n) == SubSeq(list, 1, IF Len(list) < n THEN Len(list) ELSE n)

\* keywordBasedSelection for a message whose keywords match the agents of matched.
keywordBasedSelection(matched) ==
    LET selected == SelectSeq(AgentOrder, LAMBDA a : a \in matched)
    IN slice(IF Len(selected) = 0 THEN <<"travel-planner">> ELSE selected, 3)

\* analyzeIntent: parsed.agents as the planner gave it, else the fallback.
analyzeIntent(plannerOut, matched) ==
    IF plannerOut[1] = "json" THEN plannerOut[2] ELSE keywordBasedSelection(matched)

\* Where an agent's executeAgent meets a failure: the planner call, JSON.parse
\* of its output, a tool implementation, or the summary call.
Stages == {"none", "plan", "parse", "tool", "summary"}

\* executeAgentTool catches what a tool throws and returns {success: false};
\* the other failures reach executeAgent's catch block.
CaughtByAgent(stage) == stage \in {"plan", "parse", "summary"}

NonErrorResults(resp) ==
    { i \in 1..Len(resp.agentResults) : ~resp.agentResults[i].isError }

\* ------------------------------------------------------------------------
\* State
\* ------------------------------------------------------------------------
VARIABLES
    paymentsEnabled,    \* config.enabled (X402_ENABLED)
    userBalances,       \* Map<string, UserBalance>, keyed by lowercase wallet
    processedDeposits,  \* Set<string> of credited tx hashes
    disk,               \* the two JSON files written by saveData
    paymentLedger,      \* PaymentDistribution[]
    walletRegistry,     \* Map<string, AgentWallet>: each agent's totalEarnings
    chat,               \* POST /api/chat requests: where each handler is
    dep,                \* POST /api/deposit requests: where each handler is
    response,           \* the HTTP response sent last
    credited            \* history: tx hashes whose deposit returned success

ledgerVars == <<paymentsEnabled, userBalances, processedDeposits, disk,
                paymentLedger, walletRegistry, chat, dep, response, credited>>

VARIABLES
    conn,               \* each worker socket: "unused", "open", "closing" or "closed"
    authTimeouts,       \* Map<WebSocket, Timeout>: sockets whose auth timer is armed
    registry,           \* nodeRegistry: the nodes and sockets maps, in insertion order
    agentStates,        \* agent store: agentId -> memory
    pendingJobs,        \* Map<runId, PendingJob>
    timers,             \* runIds whose dispatch setTimeout has not fired yet
    promise,            \* resultPromise of each run
    settles,            \* history: resolve/reject calls made per run
    call,               \* dispatchJob invocations: where each one is
    discarded,          \* history: JOB_RESULT frames dropped as "No pending job", modulo 2
    pendingAgentJobs,   \* Map<jobId, PendingAgentJob>
    agentTimers,        \* agent-job ids whose timeout is armed
    agentPromise,       \* the promise dispatchAgentJob returned
    agentSettles,       \* history: resolve/reject calls made per agent job
    authed,             \* history: sockets on which an AUTH with the node secret arrived
    lastReply,          \* the last frame a connection handler passed to socket.send
    authFired,          \* history: times the auth timer of each socket fired
    resolvedBy,         \* history: the socket whose JOB_RESULT resolved each run
    jobAssign           \* history: the JOB_ASSIGN frame sent for each run

dispatchVars == <<conn, authTimeouts, registry, agentStates, pendingJobs, timers, promise,
                  settles, call, discarded, pendingAgentJobs, agentTimers, agentPromise,
                  agentSettles, authed, lastReply, authFired, resolvedBy, jobAssign>>

sessionVars == <<authed, lastReply, authFired, resolvedBy, jobAssign>>

VARIABLES
    jobs,               \* the QueuedJob objects enqueue created, by runId
    pendingQueue,       \* QueuedJob[]: the runIds of the queued job objects
    runningJobs,        \* Map<runId, JobRecord>, in insertion order
    completedJobs,      \* Map<runId, JobRecord>
    deadLetterQueue,    \* JobRecord[]
    inHand,             \* jobs dequeue returned that are not marked running yet
    runs,               \* history: times markRunning put each job in running
    timedOut,           \* history: markTimeout calls that found each job running
    dequeued            \* history: the job the dequeue call just made returned, and its argument

queueVars == <<jobs, pendingQueue, runningJobs, completedJobs, deadLetterQueue,
               inHand, runs, timedOut, dequeued>>

VARIABLES
    inFlight,           \* worker node: the JOB_ASSIGN frames handleJobAssign is working on
    _activeJobs,        \* worker node: jobs handleJobAssign has not finished
    sent,               \* worker node: the frame passed to socket.send last
    currentStatus,      \* worker node, connection.ts: currentStatus
    nodeActiveJobs,     \* worker node, connection.ts: activeJobs
    isAuthenticated,    \* worker node, connection.ts: isAuthenticated
    heartbeat           \* history: the last HEARTBEAT sent, and the jobs then executing

nodeVars == <<inFlight, _activeJobs, sent, currentStatus, nodeActiveJobs, isAuthenticated,
              heartbeat>>

linkVars == <<currentStatus, nodeActiveJobs, isAuthenticated, heartbeat>>

VARIABLES
    multi               \* one executeMultiAgent call: where it is, its intent, its result

orchVars == <<multi>>

VARIABLES
    logBuffer,          \* monitor: the centralized log buffer, oldest entry first
    logged              \* history: the number of addLog calls so far

monVars == <<logBuffer, logged>>

VARIABLES
    files,              \* persistence: what each path of the data directory holds
    savePc,             \* persistence: where saveData is in its writes
    saves,              \* history: the number of saveData calls so far
    crashed             \* the control-plane process has died

diskVars == <<files, savePc, saves, crashed>>

\* The state outside the control plane's ledger, dispatchers and queue.
auxVars == <<nodeVars, orchVars, monVars, diskVars>>

coreVars == <<ledgerVars, dispatchVars, queueVars>>

\* What the worker node, the orchestrator and the monitor each leave alone.
exceptNode == <<coreVars, orchVars, monVars, diskVars>>
exceptOrch == <<coreVars, nodeVars, monVars, diskVars>>
exceptMon == <<coreVars, nodeVars, orchVars, diskVars>>
exceptDisk == <<coreVars, nodeVars, orchVars, monVars>>

vars == <<coreVars, auxVars>>

\* ------------------------------------------------------------------------
\* Balance ledger (user-balance.ts)
\* ------------------------------------------------------------------------
NewUser == [balance |-> 0, totalDeposited |-> 0, totalSpent |-> 0, depositHistory |-> <<>>]

HasUser(ub, wallet) == toLowerCase(wallet) \in DOMAIN ub

getUserBalance(ub, wallet) == ub[toLowerCase(wallet)]

BalanceOf(ub, wallet) == IF HasUser(ub, wallet) THEN getUserBalance(ub, wallet).balance ELSE 0

getOrCreateUserBalance(ub, wallet) ==
    IF HasUser(ub, wallet) THEN ub
    ELSE [k \in DOMAIN ub \cup {toLowerCase(wallet)} |->
              IF k \in DOMAIN ub THEN ub[k] ELSE NewUser]

saveData(ub, pd) == [balances |-> ub, deposits |-> pd]

\* deductBalance's guard: the value it returns.
deductOk_NoCheck(ub, wallet, amount) == HasUser(ub, wallet)

deductOk(ub, wallet, amount) ==
    HasUser(ub, wallet) /\ ~(getUserBalance(ub, wallet).balance < amount)

deductBalance_NoSpent(ub, wallet, amount) ==
    IF deductOk(ub, wallet, amount)
    THEN [ub EXCEPT ![toLowerCase(wallet)].balance = @ - amount]
    ELSE ub

\* deductBalance: the balances after the call.
deductBalance(ub, wallet, amount) ==
    IF deductOk(ub, wallet, amount)
    THEN [ub EXCEPT ![toLowerCase(wallet)].balance = @ - amount,
                    ![toLowerCase(wallet)].totalSpent = @ + amount]
    ELSE ub

\* creditBalance: the balances after the call; txHash = "" when not given.
creditBalance(ub, wallet, amount, txHash) ==
    LET u == getOrCreateUserBalance(ub, wallet)
    IN [u EXCEPT ![toLowerCase(wallet)].balance = @ + amount,
                 ![toLowerCase(wallet)].totalDeposited = @ + amount,
                 ![toLowerCase(wallet)].depositHistory =
                     IF txHash # "" THEN Append(@, txHash) ELSE @]

\* ------------------------------------------------------------------------
\* Agent wallets (wallet-generator.ts)
\* ------------------------------------------------------------------------
\* Sum of two amounts, each a fraction <<numerator, denominator>>.
FracAdd(a, b) == <<a[1] * b[2] + b[1] * a[2], a[2] * b[2]>>

NewAgentWallet == [totalEarnings |-> <<0, 1>>]

getOrCreateAgentWallet(reg, agentId) ==
    IF agentId \in DOMAIN reg THEN reg
    ELSE [k \in DOMAIN reg \cup {agentId} |-> IF k \in DOMAIN reg THEN reg[k] ELSE NewAgentWallet]

creditAgent(reg, agentId, amount) ==
    [getOrCreateAgentWallet(reg, agentId) EXCEPT
         ![agentId].totalEarnings = FracAdd(@, amount)]

\* The creditAgent calls of one distribution, in the order of agentIds.
RECURSIVE creditAgents(_, _, _)
creditAgents(reg, agentIds, amount) ==
    IF agentIds = <<>> THEN reg
    ELSE creditAgents(creditAgent(reg, Head(agentIds), amount), Tail(agentIds), amount)

\* ------------------------------------------------------------------------
\* Payment distributor (internal ledger mode)
\* ------------------------------------------------------------------------
RECURSIVE AgentPayments(_, _, _)
AgentPayments(agentIds, total, n) ==
    IF agentIds = <<>> THEN <<>>
    ELSE <<[agentId |-> Head(agentIds), amount |-> <<total, 2 * n>>]>>
         \o AgentPayments(Tail(agentIds), total, n)

\* Amounts of a distribution are fractions <<numerator, denominator>> of a unit:
\* orchestratorShare = agentShare = 1/2.
distributePayment(ledger, totalAmountUSDC, agentIds, userWallet) ==
    Append(ledger,
           [totalAmount |-> totalAmountUSDC,
            orchestratorAmount |-> <<totalAmountUSDC, 2>>,
            agentPayments |-> AgentPayments(agentIds, totalAmountUSDC, Len(agentIds)),
            from |-> userWallet])

\* ------------------------------------------------------------------------
\* Init
\* ------------------------------------------------------------------------
IdleChat == [pc |-> "idle", wallet |-> ""]

IdleDep == [pc |-> "idle", tx |-> "", wallet |-> "", replay |-> FALSE]

NoHttpResponse ==
    [route |-> "none", status |-> 0, result |-> NoResponse, charge |-> 0,
     distributions |-> 0, error |-> "", replay |-> FALSE, unchanged |-> TRUE,
     wallet |-> "", required |-> 0, currentBalance |-> 0]

ChatResponse(st, result, charge, dists) ==
    [NoHttpResponse EXCEPT !.route = "chat", !.status = st, !.result = result,
                           !.charge = charge, !.distributions = dists]

DepositResponse(st, err, replay, same) ==
    [NoHttpResponse EXCEPT !.route = "deposit", !.status = st, !.error = err,
                           !.replay = replay, !.unchanged = same]

\* Whether a step left the balances, deposit histories and processed set as they were.
LedgerSame == userBalances' = userBalances /\ processedDeposits' = processedDeposits

\* Request slots are used in the order of their numbers.
InOrder(slots, i) == IF i = 1 THEN TRUE ELSE slots[i - 1].pc # "idle"

LedgerInit ==
    /\ paymentsEnabled \in BOOLEAN
    /\ userBalances = << >>
    /\ processedDeposits = {}
    /\ disk = saveData(<< >>, {})
    /\ paymentLedger = <<>>
    /\ walletRegistry = << >>
    /\ chat = [c \in ChatIds |-> IdleChat]
    /\ dep = [d \in DepIds |-> IdleDep]
    /\ response = NoHttpResponse
    /\ credited = {}

\* ------------------------------------------------------------------------
\* POST /api/chat (handleChat)
\* ------------------------------------------------------------------------
InsufficientBalance_Never(ub, w) == FALSE

\* The credit check: no record, or a balance below the price of a query.
InsufficientBalance(ub, w) ==
    ~HasUser(ub, w) \/ getUserBalance(ub, w).balance < queryPriceUSDC

\* The 402 body: the price and the balance on record, or 0 without a record.
PaymentRequired(ub, w) ==
    [ChatResponse(402, NoResponse, 0, 0) EXCEPT
         !.error = "Insufficient balance",
         !.wallet = w,
         !.required = queryPriceUSDC,
         !.currentBalance = IF HasUser(ub, w) THEN getUserBalance(ub, w).balance ELSE 0]

\* Up to the call of executeMultiAgent: header and balance checks.
ChatStart(c, w) ==
    /\ chat[c].pc = "idle"
    /\ InOrder(chat, c)
    /\ IF paymentsEnabled /\ w = ""
       THEN /\ chat' = [chat EXCEPT ![c] = [pc |-> "done", wallet |-> ""]]
            /\ response' = ChatResponse(400, NoResponse, 0, 0)
       ELSE IF paymentsEnabled /\ InsufficientBalance(userBalances, w)
       THEN /\ chat' = [chat EXCEPT ![c] = [pc |-> "done", wallet |-> ""]]
            /\ response' = PaymentRequired(userBalances, w)
       ELSE /\ chat' = [chat EXCEPT ![c] = [pc |-> "executing", wallet |-> w]]
            /\ UNCHANGED response
    /\ UNCHANGED <<paymentsEnabled, userBalances, processedDeposits, disk, paymentLedger,
                   walletRegistry, dep, credited>>
    /\ UNCHANGED <<dispatchVars, queueVars, auxVars>>

\* Whether handleChat goes on to charge for this orchestrator response.
ChatChargeable_NonError(result) == result.success /\ NonErrorResults(result) # {}

ChatChargeable(result) == ~(~result.success \/ Len(result.agentResults) = 0)

Distributes_Always(charging, deducted) == charging

\* Whether handleChat calls distributePayment: inside `if (deducted)`.
Distributes(charging, deducted) == deducted

\* From the return of executeMultiAgent to the response.
ChatFinish(c, result) ==
    /\ chat[c].pc = "executing"
    /\ LET w == chat[c].wallet
           charging == ChatChargeable(result) /\ paymentsEnabled /\ w # ""
           deducted == charging /\ deductOk(userBalances, w, queryPriceUSDC)
           ub == IF charging THEN deductBalance(userBalances, w, queryPriceUSDC)
                 ELSE userBalances
           distributing == Distributes(charging, deducted)
           pl == IF distributing
                 THEN distributePayment(paymentLedger, queryPriceUSDC, result.agentsUsed, w)
                 ELSE paymentLedger
       IN /\ userBalances' = ub
          /\ paymentLedger' = pl
          /\ walletRegistry' =
                 IF distributing /\ Len(result.agentsUsed) > 0
                 THEN creditAgents(walletRegistry, result.agentsUsed,
                                   <<queryPriceUSDC, 2 * Len(result.agentsUsed)>>)
                 ELSE walletRegistry
          /\ disk' = IF deducted THEN saveData(ub, processedDeposits) ELSE disk
          /\ response' = ChatResponse(200, result,
                                      BalanceOf(userBalances, w) - BalanceOf(ub, w),
                                      Len(pl) - Len(paymentLedger))
    /\ chat' = [chat EXCEPT ![c] = [pc |-> "done", wallet |-> ""]]
    /\ UNCHANGED <<paymentsEnabled, processedDeposits, dep, credited>>
    /\ UNCHANGED <<dispatchVars, queueVars, auxVars>>

\* Request bodies handleChat does not serve: text that is not JSON, JSON
\* without "message", and {"message": 5} whose message has no slice method.
BadBodies == {"invalid-json", "no-message", "number-message"}

\* sendError(res, 500, error.message) as handleChat's catch block sends it.
ChatError(w, message) ==
    [ChatResponse(500, NoResponse, 0, 0) EXCEPT !.wallet = w, !.error = message]

ChatCatch_Charges(ub, w) == deductBalance(ub, w, queryPriceUSDC)

\* The balances after handleChat's catch block: it makes no ledger call.
ChatCatch(ub, w) == ub

\* handleChat on a body of BadBodies: parseBody rejects (500), the message
\* check answers 400, or body.message.slice throws after the credit check.
ChatReject(c, w, body) ==
    /\ chat[c].pc = "idle"
    /\ InOrder(chat, c)
    /\ chat' = [chat EXCEPT ![c] = [pc |-> "done", wallet |-> ""]]
    /\ IF body = "invalid-json"
       THEN /\ response' = ChatError(w, "Invalid JSON")
            /\ userBalances' = ChatCatch(userBalances, w)
       ELSE IF body = "no-message" \/ (paymentsEnabled /\ w = "")
       THEN /\ response' = ChatResponse(400, NoResponse, 0, 0)
            /\ UNCHANGED userBalances
       ELSE IF paymentsEnabled /\ InsufficientBalance(userBalances, w)
       THEN /\ response' = PaymentRequired(userBalances, w)
            /\ UNCHANGED userBalances
       ELSE /\ response' = ChatError(w, "body.message.slice is not a function")
            /\ userBalances' = ChatCatch(userBalances, w)
    /\ UNCHANGED <<paymentsEnabled, processedDeposits, disk, paymentLedger, walletRegistry, dep,
                   credited>>
    /\ UNCHANGED <<dispatchVars, queueVars, auxVars>>

\* executeMultiAgent rejects (for {"message": ["x"]} with the intent planner
\* down, keywordBasedSelection calls toLowerCase on an array): the catch block.
ChatThrow(c) ==
    /\ chat[c].pc = "executing"
    /\ chat' = [chat EXCEPT ![c] = [pc |-> "done", wallet |-> ""]]
    /\ response' = ChatError(chat[c].wallet, "message.toLowerCase is not a function")
    /\ userBalances' = ChatCatch(userBalances, chat[c].wallet)
    /\ UNCHANGED <<paymentsEnabled, processedDeposits, disk, paymentLedger, walletRegistry, dep,
                   credited>>
    /\ UNCHANGED <<dispatchVars, queueVars, auxVars>>

\* ------------------------------------------------------------------------
\* POST /api/deposit (handleDeposit, verifyAndCreditDeposit)
\* ------------------------------------------------------------------------
AlreadyProcessed_Never(pd, txHash) == FALSE

AlreadyProcessed_Always(pd, txHash) == TRUE

AlreadyProcessed(pd, txHash) == txHash \in pd

\* Up to the await of getTransactionReceipt.
DepositStart(d, txHash, wallet) ==
    /\ dep[d].pc = "idle"
    /\ InOrder(dep, d)
    /\ IF AlreadyProcessed(processedDeposits, txHash)
       THEN /\ dep' = [dep EXCEPT ![d] = [IdleDep EXCEPT !.pc = "done"]]
            /\ UNCHANGED <<userBalances, processedDeposits, disk>>
            /\ response' = DepositResponse(400, "Deposit already processed",
                                           txHash \in credited, LedgerSame)
       ELSE /\ dep' = [dep EXCEPT ![d] = [pc |-> "awaiting", tx |-> txHash, wallet |-> wallet,
                                          replay |-> txHash \in credited]]
            /\ UNCHANGED <<userBalances, processedDeposits, disk, response>>
    /\ UNCHANGED <<paymentsEnabled, paymentLedger, walletRegistry, chat, credited>>
    /\ UNCHANGED <<dispatchVars, queueVars, auxVars>>

VerifyError(receipt, expectedFromWallet) ==
    CASE receipt.kind = "notfound" -> "Transaction not found"
      [] receipt.kind = "failed" -> "Transaction failed"
      [] receipt.kind = "throws" -> "could not detect network"
      [] receipt.kind = "ok" /\ receipt.from # toLowerCase(expectedFromWallet) -> "Sender wallet mismatch"
      [] receipt.kind = "ok" -> ""
      [] OTHER -> "No valid USDC transfer to orchestrator found"

\* From the receipt to the response.
DepositResume(d) ==
    /\ dep[d].pc = "awaiting"
    /\ LET receipt == Receipt(dep[d].tx)
           err == VerifyError(receipt, dep[d].wallet)
       IN IF err = ""
          THEN /\ processedDeposits' = processedDeposits \cup {dep[d].tx}
               /\ userBalances' = creditBalance(userBalances, dep[d].wallet, receipt.amount, dep[d].tx)
               /\ disk' = saveData(userBalances', processedDeposits')
               /\ credited' = credited \cup {dep[d].tx}
               /\ response' = DepositResponse(200, "", dep[d].replay, LedgerSame)
          ELSE /\ UNCHANGED <<userBalances, processedDeposits, disk, credited>>
               /\ response' = DepositResponse(400, err, dep[d].replay, LedgerSame)
    /\ dep' = [dep EXCEPT ![d] = [IdleDep EXCEPT !.pc = "done"]]
    /\ UNCHANGED <<paymentsEnabled, paymentLedger, walletRegistry, chat>>
    /\ UNCHANGED <<dispatchVars, queueVars, auxVars>>

LedgerNext ==
    \/ \E c \in ChatIds, w \in WalletInputs \cup {""} : ChatStart(c, w)
    \/ \E c \in ChatIds, result \in MultiAgentOutcomes : ChatFinish(c, result)
    \/ \E d \in DepIds, txHash \in TxIds, wallet \in WalletInputs : DepositStart(d, txHash, wallet)
    \/ \E d \in DepIds : DepositResume(d)

\* Deposit requests for transactions of every kind.
DepositNext ==
    \/ \E d \in DepIds, txHash \in ReceiptTxIds, wallet \in WalletInputs :
           DepositStart(d, txHash, wallet)
    \/ \E d \in DepIds : DepositResume(d)

\* Chat requests of one wallet, well formed or not, with its deposit.
ChatNext ==
    \/ \E c \in ChatIds, w \in {"0xA", ""} : ChatStart(c, w)
    \/ \E c \in ChatIds, w \in {"0xA", ""}, body \in BadBodies : ChatReject(c, w, body)
    \/ \E c \in ChatIds, result \in MultiAgentOutcomes : ChatFinish(c, result)
    \/ \E c \in ChatIds : ChatThrow(c)
    \/ \E d \in DepIds : DepositStart(d, "t1", "0xA")
    \/ \E d \in DepIds : DepositResume(d)

\* ------------------------------------------------------------------------
\* Worker connections and node registry
\* ------------------------------------------------------------------------
Sockets == {"s1", "s2"}

NodeIds == {"n1", "n2"}

AgentIds == {"default", "travel-planner"}

AgentTypes == {"travel-planner", "budget-planner"}

\* The agent types a node advertises in its AUTH frame.
NodeAgentTypes(nodeId) == IF nodeId = "n1" THEN {"travel-planner"} ELSE {}

RunIds == 1..MaxRuns

AgentJobIds == 1..MaxAgentJobs

\* A runId no dispatch ever allocated.
UnknownRun == 0

Memories == {"none", "m1"}

\* payload.status of a JOB_RESULT frame.
ResultStatuses == {"SUCCESS", "ERROR"}

IndexOfNode(reg, nodeId) ==
    IF \E i \in 1..Len(reg) : reg[i].nodeId = nodeId
    THEN CHOOSE i \in 1..Len(reg) : reg[i].nodeId = nodeId
    ELSE 0

\* register: Map.set keeps the place of a key that is already present. A
\* node's lastHeartbeat is kept as age, the time elapsed since it.
register(reg, nodeId, socket) ==
    LET node == [nodeId |-> nodeId, socket |-> socket, status |-> "ONLINE", activeJobs |-> 0,
                 age |-> 0]
        i == IndexOfNode(reg, nodeId)
    IN IF i = 0 THEN Append(reg, node) ELSE [reg EXCEPT ![i] = node]

IsNot(nodeId, n) == n.nodeId # nodeId

unregister(reg, nodeId) == SelectSeq(reg, LAMBDA n : IsNot(nodeId, n))

updateHeartbeat(reg, nodeId, activeJobs) ==
    LET i == IndexOfNode(reg, nodeId)
    IN IF i = 0 THEN reg ELSE [reg EXCEPT ![i].activeJobs = activeJobs, ![i].age = 0]

\* findNodeIdBySocket: the first nodeId registered with the socket, "" if none.
findNodeIdBySocket(reg, socket) ==
    IF \E i \in 1..Len(reg) : reg[i].socket = socket
    THEN reg[CHOOSE i \in 1..Len(reg) :
                /\ reg[i].socket = socket
                /\ \A j \in 1..(i - 1) : reg[j].socket # socket].nodeId
    ELSE ""

IsIdle_Any(n) == TRUE

IsIdle(n) == n.status = "ONLINE" /\ n.activeJobs = 0

getIdleNodes(reg) == SelectSeq(reg, IsIdle)

getSocket(reg, nodeId) == reg[IndexOfNode(reg, nodeId)].socket

\* getIdleNodeForAgent: the idle nodes that advertise the agent type.
getIdleNodeForAgent(reg, agentType) ==
    SelectSeq(getIdleNodes(reg), LAMBDA n : agentType \in NodeAgentTypes(n.nodeId))

\* No JOB_ASSIGN was sent for the run.
NoJobAssign == [sent |-> FALSE, timeout |-> 0, deadline |-> 0]

\* A POST /api/run request and the dispatchJob call it makes: attempts counts
\* the JOB_ASSIGN frames sent for it, status is the HTTP status handleRun sends.
IdleCall == [pc |-> "idle", outcome |-> "", returns |-> 0, attempts |-> 0, status |-> 0]

\* handleRun: 200 for a DispatchResult with success, 503 otherwise.
RunStatus(success) == IF success THEN 200 ELSE 503

\* Frames of the connection handlers (sendAuthAck, sendHeartbeatAck, sendError).
\* Trace ids of the frames workers send; parseMessage drops a frame without one.
TraceIds == {"tr1", "tr2"}

\* createBaseMessage called without a traceId.
NoTraceId == ""

generateTraceId == "generated"

createBaseMessage_Fresh(type, traceId) == [type |-> type, traceId |-> generateTraceId]

\* createBaseMessage: traceId ?? generateTraceId().
createBaseMessage(type, traceId) ==
    [type |-> type, traceId |-> IF traceId = NoTraceId THEN generateTraceId ELSE traceId]

\* A frame passed to socket.send; request is the traceId of the frame the
\* handler was called with ("" in a timer callback).
Frame(base, socket, request, success, text, fatal) ==
    [to |-> socket, type |-> base.type, traceId |-> base.traceId, request |-> request,
     success |-> success, text |-> text, fatal |-> fatal]

NoReply == Frame([type |-> "", traceId |-> ""], "", "", FALSE, "", FALSE)

sendAuthAck(socket, traceId, success, message) ==
    Frame(createBaseMessage("AUTH_ACK", traceId), socket, traceId, success, message, FALSE)

sendHeartbeatAck(socket, traceId) ==
    Frame(createBaseMessage("HEARTBEAT_ACK", traceId), socket, traceId, TRUE, "", FALSE)

sendError(socket, request, code, fatal) ==
    Frame(createBaseMessage("ERROR", NoTraceId), socket, request, FALSE, code, fatal)

DispatchInit ==
    /\ conn = [s \in Sockets |-> "unused"]
    /\ authTimeouts = {}
    /\ registry = <<>>
    /\ agentStates = << >>
    /\ pendingJobs = << >>
    /\ timers = {}
    /\ promise = [r \in RunIds |-> "none"]
    /\ settles = [r \in RunIds |-> 0]
    /\ call = [r \in RunIds |-> IdleCall]
    /\ discarded = 0
    /\ pendingAgentJobs = << >>
    /\ agentTimers = {}
    /\ agentPromise = [j \in AgentJobIds |-> "none"]
    /\ agentSettles = [j \in AgentJobIds |-> 0]
    /\ authed = {}
    /\ lastReply = NoReply
    /\ authFired = [s \in Sockets |-> 0]
    /\ resolvedBy = [r \in RunIds |-> ""]
    /\ jobAssign = [r \in RunIds |-> NoJobAssign]

clearTimeout_Forgotten(armed, j) == armed

\* clearTimeout(timeout) together with the delete of its map entry.
clearTimeout(armed, j) == armed \ {j}

\* wss.on('connection'): arm the auth timer.
Connect(s) ==
    /\ conn[s] = "unused"
    /\ conn' = [conn EXCEPT ![s] = "open"]
    /\ authTimeouts' = authTimeouts \cup {s}
    /\ UNCHANGED <<registry, agentStates, pendingJobs, timers, promise, settles, call, discarded,
                   pendingAgentJobs, agentTimers, agentPromise, agentSettles>>
    /\ UNCHANGED sessionVars
    /\ UNCHANGED <<ledgerVars, queueVars, auxVars>>

\* socket.close(): the close event follows later.
CloseSocket(c, s) == IF c[s] = "open" THEN [c EXCEPT ![s] = "closing"] ELSE c

\* The auth timer fires: ERROR{AUTH_TIMEOUT} and socket.close().
AuthTimeoutFire(s) ==
    /\ s \in authTimeouts
    /\ conn' = CloseSocket(conn, s)
    /\ authTimeouts' = authTimeouts \ {s}
    /\ UNCHANGED <<registry, agentStates, pendingJobs, timers, promise, settles, call, discarded,
                   pendingAgentJobs, agentTimers, agentPromise, agentSettles>>
    /\ lastReply' = sendError(s, "", "AUTH_TIMEOUT", TRUE)
    /\ authFired' = [authFired EXCEPT ![s] = @ + 1]
    /\ UNCHANGED <<authed, resolvedBy, jobAssign>>
    /\ UNCHANGED <<ledgerVars, queueVars, auxVars>>

\* socket.on('close'): clear the auth timer, unregister the node found by socket.
SocketClose(s) ==
    /\ conn[s] \in {"open", "closing"}
    /\ conn' = [conn EXCEPT ![s] = "closed"]
    /\ authTimeouts' = clearTimeout(authTimeouts, s)
    /\ registry' = LET nodeId == findNodeIdBySocket(registry, s)
                   IN IF nodeId # "" THEN unregister(registry, nodeId) ELSE registry
    /\ UNCHANGED <<agentStates, pendingJobs, timers, promise, settles, call, discarded,
                   pendingAgentJobs, agentTimers, agentPromise, agentSettles>>
    /\ UNCHANGED sessionVars
    /\ UNCHANGED <<ledgerVars, queueVars, auxVars>>

\* config.auth.nodeSecret
nodeSecret == "terminus-dev-secret"

\* payload.secret of an AUTH frame.
Secrets == {"terminus-dev-secret", "guess"}

SecretRejected_Never(secret) == FALSE

\* secret !== config.auth.nodeSecret
SecretRejected(secret) == secret # nodeSecret

\* handleAuth.
HandleAuth(s, nodeId, secret, traceId) ==
    /\ conn[s] \in {"open", "closing"}
    /\ authTimeouts' = clearTimeout(authTimeouts, s)
    /\ IF SecretRejected(secret)
       THEN /\ lastReply' = sendAuthAck(s, traceId, FALSE, "Invalid credentials")
            /\ conn' = CloseSocket(conn, s)
            /\ UNCHANGED registry
       ELSE /\ registry' = register(registry, nodeId, s)
            /\ lastReply' = sendAuthAck(s, traceId, TRUE, "")
            /\ UNCHANGED conn
    /\ authed' = IF secret = nodeSecret THEN authed \cup {s} ELSE authed
    /\ UNCHANGED <<authFired, resolvedBy, jobAssign>>
    /\ UNCHANGED <<agentStates, pendingJobs, timers, promise, settles, call, discarded,
                   pendingAgentJobs, agentTimers, agentPromise, agentSettles>>
    /\ UNCHANGED <<ledgerVars, queueVars, auxVars>>

\* handleHeartbeat.
HandleHeartbeat(s, activeJobs, traceId) ==
    /\ conn[s] \in {"open", "closing"}
    /\ LET nodeId == findNodeIdBySocket(registry, s)
       IN IF nodeId = ""
          THEN /\ lastReply' = sendError(s, traceId, "NOT_REGISTERED", TRUE)
               /\ conn' = CloseSocket(conn, s)
               /\ UNCHANGED registry
          ELSE /\ registry' = updateHeartbeat(registry, nodeId, activeJobs)
               /\ lastReply' = sendHeartbeatAck(s, traceId)
               /\ UNCHANGED conn
    /\ UNCHANGED <<authed, authFired, resolvedBy, jobAssign>>
    /\ UNCHANGED <<authTimeouts, agentStates, pendingJobs, timers, promise, settles, call, discarded,
                   pendingAgentJobs, agentTimers, agentPromise, agentSettles>>
    /\ UNCHANGED <<ledgerVars, queueVars, auxVars>>

\* Heartbeat ages are counted in ticks of 15 s: STALE_THRESHOLD_MS = 30000 and
\* config.timing.heartbeatTimeout = 15000.
STALE_THRESHOLD == 2

heartbeatTimeout == 1

\* Past this age more time makes no difference to any reader of lastHeartbeat.
OldestAge == STALE_THRESHOLD + heartbeatTimeout + 2

\* Time passes: every node's heartbeat gets one tick older. No timer of the
\* control plane reads the registry's heartbeat ages.
Elapse ==
    /\ registry' = [i \in 1..Len(registry) |->
                       [registry[i] EXCEPT !.age = IF @ < OldestAge THEN @ + 1 ELSE @]]
    /\ UNCHANGED <<conn, authTimeouts, agentStates, pendingJobs, timers, promise, settles, call,
                   discarded, pendingAgentJobs, agentTimers, agentPromise, agentSettles>>
    /\ UNCHANGED sessionVars
    /\ UNCHANGED <<ledgerVars, queueVars, auxVars>>

\* getAgentNodesStatus: the status a monitoring query reports for a node.
ReportedStatus(node) ==
    IF node.status = "ONLINE" /\ node.age > STALE_THRESHOLD THEN "STALE" ELSE node.status

\* ------------------------------------------------------------------------
\* Job dispatcher (dispatchJob, handleJobResult)
\* ------------------------------------------------------------------------
MapSet(m, k, v) == [x \in DOMAIN m \cup {k} |-> IF x = k THEN v ELSE m[x]]

MapDelete(m, k) == [x \in DOMAIN m \ {k} |-> m[x]]

\* getAgentState: creates an empty state for an agent that has none.
getAgentState(states, agentId) ==
    IF agentId \in DOMAIN states THEN states ELSE MapSet(states, agentId, "none")

updateAgentState(states, agentId, memory) == MapSet(states, agentId, memory)

\* Settling a promise: only the first resolve or reject takes effect.
Settle(p, outcome) == IF p = "pending" THEN outcome ELSE p

\* options.timeout when the caller gives none (timeout = 10000), in ms.
DEFAULT_DISPATCH_TIMEOUT == 10000

\* payload.timeout of the JOB_ASSIGN frame: timeout - 1000.
JobAssignTimeout(timeout) == timeout - 1000

\* dispatchJob up to the await of the result promise, for a caller that
\* gives options.timeout. The call's number is the fresh runId it allocates;
\* deadline is the delay of the setTimeout that rejects the run.
DispatchJobWithin(r, agentId, timeout) ==
    /\ call[r].pc = "idle"
    /\ InOrder(call, r)
    /\ LET idleNodes == getIdleNodes(registry)
       IN IF Len(idleNodes) = 0
          THEN /\ call' = [call EXCEPT ![r] = [pc |-> "returned",
                                               outcome |-> "No idle nodes available",
                                               returns |-> 1, attempts |-> 0,
                                               status |-> RunStatus(FALSE)]]
               /\ UNCHANGED <<agentStates, pendingJobs, timers, promise, jobAssign>>
          ELSE /\ agentStates' = getAgentState(agentStates, agentId)
               /\ pendingJobs' = MapSet(pendingJobs, r,
                                        [nodeId |-> idleNodes[1].nodeId, agentId |-> agentId])
               /\ timers' = timers \cup {r}
               /\ promise' = [promise EXCEPT ![r] = "pending"]
               /\ jobAssign' = [jobAssign EXCEPT ![r] =
                                  [sent |-> TRUE, timeout |-> JobAssignTimeout(timeout),
                                   deadline |-> timeout]]
               /\ call' = [call EXCEPT ![r] = [@ EXCEPT !.pc = "awaiting", !.attempts = 1]]
    /\ UNCHANGED <<conn, authTimeouts, registry, settles, discarded,
                   pendingAgentJobs, agentTimers, agentPromise, agentSettles>>
    /\ UNCHANGED <<authed, lastReply, authFired, resolvedBy>>
    /\ UNCHANGED <<ledgerVars, queueVars, auxVars>>

\* dispatchJob for a caller that gives no timeout.
DispatchJob(r, agentId) == DispatchJobWithin(r, agentId, DEFAULT_DISPATCH_TIMEOUT)

TimerFinds_Always(pending, runId) == TRUE

TimerFinds_Never(pending, runId) == FALSE

\* The timer callback's test pendingJobs.has(runId).
TimerFinds(pending, runId) == runId \in DOMAIN pending

\* The dispatch deadline fires.
DispatchTimeout(r) ==
    /\ r \in timers
    /\ timers' = timers \ {r}
    /\ IF TimerFinds(pendingJobs, r)
       THEN /\ pendingJobs' = MapDelete(pendingJobs, r)
            /\ promise' = [promise EXCEPT ![r] = Settle(@, "rejected")]
            /\ settles' = [settles EXCEPT ![r] = @ + 1]
       ELSE UNCHANGED <<pendingJobs, promise, settles>>
    /\ UNCHANGED <<conn, authTimeouts, registry, agentStates, call, discarded,
                   pendingAgentJobs, agentTimers, agentPromise, agentSettles>>
    /\ UNCHANGED sessionVars
    /\ UNCHANGED <<ledgerVars, queueVars, auxVars>>

NoPending == [found |-> FALSE, agentId |-> ""]

PendingGet_Stale(pending, runId) ==
    IF runId \in DOMAIN pending THEN [found |-> TRUE, agentId |-> pending[runId].agentId]
    ELSE IF runId \in RunIds THEN [found |-> TRUE, agentId |-> "default"]
    ELSE NoPending

\* handleJobResult's lookup pendingJobs.get(runId).
PendingGet(pending, runId) ==
    IF runId \in DOMAIN pending THEN [found |-> TRUE, agentId |-> pending[runId].agentId]
    ELSE NoPending

\* A JOB_RESULT frame arrives on socket s (handleMessage, handleJobResult).
HandleJobResult(s, runId, status, memory) ==
    /\ conn[s] \in {"open", "closing"}
    /\ LET pending == PendingGet(pendingJobs, runId)
       IN IF ~pending.found
          THEN /\ discarded' = 1 - discarded
               /\ UNCHANGED <<pendingJobs, agentStates, promise, settles, resolvedBy>>
          ELSE /\ pendingJobs' = MapDelete(pendingJobs, runId)
               /\ agentStates' = IF memory # "none" /\ pending.agentId # ""
                                 THEN updateAgentState(agentStates, pending.agentId, memory)
                                 ELSE agentStates
               /\ promise' = [promise EXCEPT ![runId] =
                                Settle(@, IF status = "SUCCESS" THEN "fulfilled"
                                          ELSE "fulfilled-error")]
               /\ settles' = [settles EXCEPT ![runId] = @ + 1]
               /\ resolvedBy' = [resolvedBy EXCEPT ![runId] = s]
               /\ UNCHANGED discarded
    /\ UNCHANGED jobAssign
    /\ UNCHANGED <<conn, authTimeouts, registry, timers, call,
                   pendingAgentJobs, agentTimers, agentPromise, agentSettles>>
    /\ UNCHANGED <<authed, lastReply, authFired>>
    /\ UNCHANGED <<ledgerVars, queueVars, auxVars>>

\* dispatchJob resumes after its promise settled and returns a DispatchResult,
\* and handleRun answers the request.
DispatchReturn(r) ==
    /\ call[r].pc = "awaiting"
    /\ promise[r] \in {"fulfilled", "fulfilled-error", "rejected"}
    /\ call' = [call EXCEPT ![r] = [@ EXCEPT !.pc = "returned",
                                      !.outcome = IF promise[r] = "rejected" THEN "timeout"
                                                  ELSE "result",
                                      !.returns = @ + 1,
                                      !.status = RunStatus(promise[r] = "fulfilled")]]
    /\ UNCHANGED <<conn, authTimeouts, registry, agentStates, pendingJobs, timers, promise,
                   settles, discarded, pendingAgentJobs, agentTimers, agentPromise,
                   agentSettles>>
    /\ UNCHANGED sessionVars
    /\ UNCHANGED <<ledgerVars, queueVars, auxVars>>

\* ------------------------------------------------------------------------
\* Agent-job dispatch (dispatchAgentJob, handleAgentJobResult)
\* ------------------------------------------------------------------------
DispatchAgentJob(j, agentType) ==
    /\ agentPromise[j] = "none"
    /\ \A i \in 1..(j - 1) : agentPromise[i] # "none"
    /\ IF Len(getIdleNodeForAgent(registry, agentType)) = 0
       THEN /\ agentPromise' = [agentPromise EXCEPT ![j] = "rejected"]
            /\ agentSettles' = [agentSettles EXCEPT ![j] = @ + 1]
            /\ UNCHANGED <<pendingAgentJobs, agentTimers>>
       ELSE /\ agentPromise' = [agentPromise EXCEPT ![j] = "pending"]
            /\ agentTimers' = agentTimers \cup {j}
            /\ pendingAgentJobs' = MapSet(pendingAgentJobs, j, [agentType |-> agentType])
            /\ UNCHANGED agentSettles
    /\ UNCHANGED <<conn, authTimeouts, registry, agentStates, pendingJobs, timers, promise,
                   settles, call, discarded>>
    /\ UNCHANGED sessionVars
    /\ UNCHANGED <<ledgerVars, queueVars, auxVars>>

\* The agent-job timeout fires.
AgentJobTimeout(j) ==
    /\ j \in agentTimers
    /\ agentTimers' = agentTimers \ {j}
    /\ pendingAgentJobs' = MapDelete(pendingAgentJobs, j)
    /\ agentPromise' = [agentPromise EXCEPT ![j] = Settle(@, "rejected")]
    /\ agentSettles' = [agentSettles EXCEPT ![j] = @ + 1]
    /\ UNCHANGED <<conn, authTimeouts, registry, agentStates, pendingJobs, timers, promise,
                   settles, call, discarded>>
    /\ UNCHANGED sessionVars
    /\ UNCHANGED <<ledgerVars, queueVars, auxVars>>

\* An AGENT_JOB_RESULT frame arrives on socket s.
HandleAgentJobResult(s, j, success) ==
    /\ conn[s] \in {"open", "closing"}
    /\ IF j \notin DOMAIN pendingAgentJobs
       THEN UNCHANGED <<pendingAgentJobs, agentTimers, agentPromise, agentSettles>>
       ELSE /\ agentTimers' = clearTimeout(agentTimers, j)
            /\ pendingAgentJobs' = MapDelete(pendingAgentJobs, j)
            /\ agentPromise' = [agentPromise EXCEPT ![j] =
                                   Settle(@, IF success THEN "fulfilled" ELSE "rejected")]
            /\ agentSettles' = [agentSettles EXCEPT ![j] = @ + 1]
    /\ UNCHANGED <<conn, authTimeouts, registry, agentStates, pendingJobs, timers, promise,
                   settles, call, discarded>>
    /\ UNCHANGED sessionVars
    /\ UNCHANGED <<ledgerVars, queueVars, auxVars>>

\* The steps of the connections and dispatchers, for workers on the sockets
\* SS that present the node ids NN and jobs for the agents AA.
\* Worker connections on sockets SS with node ids NN: every frame and timer
\* of the connection handlers.
SessionNextOn(SS, NN, TT) ==
    \/ \E s \in SS : Connect(s)
    \/ \E s \in SS : AuthTimeoutFire(s)
    \/ \E s \in SS : SocketClose(s)
    \/ \E s \in SS, nodeId \in NN, secret \in Secrets, traceId \in TT :
           HandleAuth(s, nodeId, secret, traceId)
    \/ \E s \in SS, activeJobs \in {0, 1}, traceId \in TT : HandleHeartbeat(s, activeJobs, traceId)

\* Workers that connect, authenticate with the node secret and disconnect.
WorkerNextOn(SS, NN) ==
    \/ \E s \in SS : Connect(s)
    \/ \E s \in SS : SocketClose(s)
    \/ \E s \in SS, nodeId \in NN : HandleAuth(s, nodeId, nodeSecret, "tr1")

\* The run dispatcher, for frames on sockets SS, agent ids AA and memories MM.
JobNextOn(SS, AA, MM) ==
    \/ \E r \in RunIds, agentId \in AA : DispatchJob(r, agentId)
    \/ \E r \in RunIds : DispatchTimeout(r)
    \/ \E s \in SS, runId \in RunIds \cup {UnknownRun}, status \in ResultStatuses,
             memory \in MM :
          HandleJobResult(s, runId, status, memory)
    \/ \E r \in RunIds : DispatchReturn(r)

\* The agent-job dispatcher.
AgentJobNextOn(SS) ==
    \/ \E j \in AgentJobIds, agentType \in AgentTypes : DispatchAgentJob(j, agentType)
    \/ \E j \in AgentJobIds : AgentJobTimeout(j)
    \/ \E s \in SS, j \in AgentJobIds, success \in BOOLEAN : HandleAgentJobResult(s, j, success)

DispatchNext ==
    \/ SessionNextOn(Sockets, NodeIds, {"tr1"})
    \/ Elapse
    \/ JobNextOn(Sockets, AgentIds, Memories)
    \/ AgentJobNextOn(Sockets)

\* ------------------------------------------------------------------------
\* Job queue with retry (enqueue, dequeue, markRunning, markComplete,
\* markTimeout, checkTimeouts)
\* ------------------------------------------------------------------------
MaxJobs == 2

DEFAULT_MAX_RETRIES == 3

QueueRunIds == 1..MaxJobs

\* requiredCapabilities of a job, and the capabilities a node offers.
CapabilitySets == {{}, {"gpu"}}

\* job.timeout, in clock ticks.
JobTimeouts == {1}

NodeNames == {"n1"}

\* dequeue's null.
NoJob == [runId |-> 0, requiredCapabilities |-> {}, timeout |-> 0, retryCount |-> 0,
          maxRetries |-> 0]

\* The step just taken handed out no job: it was not a dequeue call, or the
\* call returned null.
NoDequeue == [called |-> FALSE, capabilities |-> {}, returned |-> NoJob]

QueueInit ==
    /\ jobs = <<>>
    /\ pendingQueue = <<>>
    /\ runningJobs = <<>>
    /\ completedJobs = <<>>
    /\ deadLetterQueue = <<>>
    /\ inHand = {}
    /\ runs = [r \in QueueRunIds |-> 0]
    /\ timedOut = [r \in QueueRunIds |-> 0]
    /\ dequeued = NoDequeue

\* Index of the record of runId in the running map, 0 when it has none.
RunningIndex(running, runId) ==
    IF \E i \in 1..Len(running) : running[i].runId = runId
    THEN CHOOSE i \in 1..Len(running) : running[i].runId = runId
    ELSE 0

\* Map.set: an existing key keeps its place, a new key goes last.
RunningSet(running, record) ==
    LET i == RunningIndex(running, record.runId)
    IN IF i = 0 THEN Append(running, record) ELSE [running EXCEPT ![i] = record]

RunningDelete_Keep(running, runId) == running

\* runningJobs.delete(runId)
RunningDelete(running, runId) ==
    SelectSeq(running, LAMBDA rec : rec.runId # runId)

\* job.requiredCapabilities.every(cap => capabilities.includes(cap))
Matches(job, capabilities) == job.requiredCapabilities \subseteq capabilities

findIndex_Head(queue, js, capabilities) == IF Len(queue) = 0 THEN 0 ELSE 1

\* pendingQueue.findIndex(...): 0 stands for the code's -1.
findIndex(queue, js, capabilities) ==
    LET hits == {i \in 1..Len(queue) : Matches(js[queue[i]], capabilities)}
    IN IF hits = {} THEN 0 ELSE CHOOSE i \in hits : \A k \in hits : i <= k

splice_Keep(queue, index) == queue

\* pendingQueue.splice(index, 1)
splice(queue, index) == SubSeq(queue, 1, index - 1) \o SubSeq(queue, index + 1, Len(queue))

\* enqueue(job): retryCount, maxRetries and createdAt are set by the queue.
Enqueue(r, capabilities, timeout) ==
    /\ r \notin DOMAIN jobs
    /\ \A i \in 1..(r - 1) : i \in DOMAIN jobs
    /\ jobs' = MapSet(jobs, r, [runId |-> r, requiredCapabilities |-> capabilities,
                                timeout |-> timeout, retryCount |-> 0,
                                maxRetries |-> DEFAULT_MAX_RETRIES])
    /\ pendingQueue' = Append(pendingQueue, r)
    /\ UNCHANGED <<runningJobs, completedJobs, deadLetterQueue, inHand, runs, timedOut>>
    /\ dequeued' = NoDequeue
    /\ UNCHANGED <<ledgerVars, dispatchVars, auxVars>>

\* dequeue(capabilities): the first matching job leaves the queue and is
\* handed to the caller; null leaves everything as it is.
Dequeue(capabilities) ==
    /\ LET index == findIndex(pendingQueue, jobs, capabilities)
       IN IF index = 0
          THEN /\ dequeued' = NoDequeue
               /\ UNCHANGED <<pendingQueue, inHand>>
          ELSE /\ pendingQueue' = splice(pendingQueue, index)
               /\ inHand' = inHand \cup {pendingQueue[index]}
               /\ dequeued' = [called |-> TRUE, capabilities |-> capabilities,
                               returned |-> jobs[pendingQueue[index]]]
    /\ UNCHANGED <<jobs, runningJobs, completedJobs, deadLetterQueue, runs, timedOut>>
    /\ UNCHANGED <<ledgerVars, dispatchVars, auxVars>>

\* markRunning(job, nodeId), called with a job dequeue handed out.
MarkRunning(r, nodeId) ==
    /\ r \in inHand
    /\ runningJobs' = RunningSet(runningJobs,
                         [runId |-> r, status |-> "RUNNING", nodeId |-> nodeId,
                          elapsed |-> 0, error |-> ""])
    /\ inHand' = inHand \ {r}
    /\ runs' = [runs EXCEPT ![r] = @ + 1]
    /\ UNCHANGED <<jobs, pendingQueue, completedJobs, deadLetterQueue, timedOut>>
    /\ dequeued' = NoDequeue
    /\ UNCHANGED <<ledgerVars, dispatchVars, auxVars>>

\* markComplete(runId, success, result, error)
MarkComplete(runId, success) ==
    /\ LET i == RunningIndex(runningJobs, runId)
       IN IF i = 0
          THEN UNCHANGED <<runningJobs, completedJobs>>
          ELSE /\ runningJobs' = RunningDelete(runningJobs, runId)
               /\ completedJobs' =
                     MapSet(completedJobs, runId,
                            [runningJobs[i] EXCEPT
                                !.status = IF success THEN "SUCCESS" ELSE "FAILED",
                                !.error = IF success THEN "" ELSE "failed"])
    /\ UNCHANGED <<jobs, pendingQueue, deadLetterQueue, inHand, runs, timedOut>>
    /\ dequeued' = NoDequeue
    /\ UNCHANGED <<ledgerVars, dispatchVars, auxVars>>

\* The queue structures markTimeout reads and writes.
QueueState == [jobs |-> jobs, pendingQueue |-> pendingQueue, runningJobs |-> runningJobs,
               deadLetterQueue |-> deadLetterQueue, timedOut |-> timedOut]

ErrorText(maxRetries) == "Exceeded max retries (" \o ToString(maxRetries) \o ")"

Exhausted_Late(retryCount, maxRetries) == retryCount > maxRetries

\* job.retryCount >= job.maxRetries
Exhausted(retryCount, maxRetries) == retryCount >= maxRetries

\* markTimeout(runId) on the structures q.
markTimeout(q, runId) ==
    LET i == RunningIndex(q.runningJobs, runId)
    IN IF i = 0 THEN q
       ELSE LET record == q.runningJobs[i]
                job == [q.jobs[runId] EXCEPT !.retryCount = @ + 1]
                base == [q EXCEPT !.runningJobs = RunningDelete(@, runId),
                                  !.jobs[runId] = job,
                                  !.timedOut[runId] = @ + 1]
            IN IF Exhausted(job.retryCount, job.maxRetries)
               THEN [base EXCEPT !.deadLetterQueue =
                        Append(@, [record EXCEPT !.status = "DEAD",
                                                 !.error = ErrorText(job.maxRetries)])]
               ELSE [base EXCEPT !.pendingQueue = Append(@, runId)]

QueueStateBecomes(q) ==
    /\ jobs' = q.jobs
    /\ pendingQueue' = q.pendingQueue
    /\ runningJobs' = q.runningJobs
    /\ deadLetterQueue' = q.deadLetterQueue
    /\ timedOut' = q.timedOut

\* A direct call of the exported markTimeout(runId).
MarkTimeout(runId) ==
    /\ QueueStateBecomes(markTimeout(QueueState, runId))
    /\ UNCHANGED <<completedJobs, inHand, runs>>
    /\ dequeued' = NoDequeue
    /\ UNCHANGED <<ledgerVars, dispatchVars, auxVars>>

\* timedOut.forEach(runId => markTimeout(runId))
RECURSIVE markTimeouts(_, _)
markTimeouts(q, runIds) ==
    IF runIds = <<>> THEN q
    ELSE markTimeouts(markTimeout(q, Head(runIds)), Tail(runIds))

\* elapsed > record.job.timeout, where elapsed is now - record.startedAt
Overdue(record, js) == record.elapsed > js[record.runId].timeout

RunIdsOf(records) == [i \in 1..Len(records) |-> records[i].runId]

\* checkTimeouts(), run by setInterval.
CheckTimeouts ==
    /\ LET overdue == SelectSeq(runningJobs, LAMBDA rec : Overdue(rec, jobs))
       IN QueueStateBecomes(markTimeouts(QueueState, RunIdsOf(overdue)))
    /\ UNCHANGED <<completedJobs, inHand, runs>>
    /\ dequeued' = NoDequeue
    /\ UNCHANGED <<ledgerVars, dispatchVars, auxVars>>

\* Time passes: Date.now() grows by one tick. A record's startedAt is kept
\* as the time elapsed since it, which is all checkTimeouts reads of the
\* clock; past job.timeout + 1 more time makes no difference to it.
Older(record, js) ==
    IF Overdue(record, js) THEN record ELSE [record EXCEPT !.elapsed = @ + 1]

Tick ==
    /\ runningJobs' = [i \in 1..Len(runningJobs) |-> Older(runningJobs[i], jobs)]
    /\ UNCHANGED <<jobs, pendingQueue, completedJobs, deadLetterQueue, inHand, runs, timedOut>>
    /\ dequeued' = NoDequeue
    /\ UNCHANGED <<ledgerVars, dispatchVars, auxVars>>

QueueNext ==
    \/ \E r \in QueueRunIds, capabilities \in CapabilitySets, timeout \in JobTimeouts :
          Enqueue(r, capabilities, timeout)
    \/ \E capabilities \in CapabilitySets : Dequeue(capabilities)
    \/ \E r \in QueueRunIds, nodeId \in NodeNames : MarkRunning(r, nodeId)
    \/ \E runId \in QueueRunIds \cup {UnknownRun}, success \in BOOLEAN :
          MarkComplete(runId, success)
    \/ \E runId \in QueueRunIds \cup {UnknownRun} : MarkTimeout(runId)
    \/ CheckTimeouts
    \/ Tick

\* ------------------------------------------------------------------------
\* The whole control plane
\* ------------------------------------------------------------------------
\* ------------------------------------------------------------------------
\* Worker node: job handler (handleJobAssign)
\* ------------------------------------------------------------------------
MaxInFlight == 2

\* JOB_ASSIGN frames a worker receives.
AssignFrames ==
    { [traceId |-> "tr1", jobId |-> "job1", runId |-> 1],
      [traceId |-> "tr2", jobId |-> "job2", runId |-> 2],
      [traceId |-> "tr2", jobId |-> "job1", runId |-> 2] }

NoFrame == [type |-> "", traceId |-> "", jobId |-> "", runId |-> 0, status |-> "",
            answers |-> [traceId |-> "", jobId |-> "", runId |-> 0]]

\* The JOB_RESULT handleJobAssign builds for message, in the try block or in
\* the catch block; answers is the JOB_ASSIGN the invocation was called with.
JobResultMessage(message, status) ==
    LET base == createBaseMessage("JOB_RESULT", message.traceId)
    IN [type |-> base.type, traceId |-> base.traceId,
        jobId |-> message.jobId, runId |-> message.runId,
        status |-> status, answers |-> message]

NoHeartbeat == [sent |-> FALSE, status |-> "IDLE", activeJobs |-> 0, executing |-> 0]

NodeInit ==
    /\ inFlight = {}
    /\ _activeJobs = 0
    /\ sent = NoFrame
    /\ currentStatus = "IDLE"
    /\ nodeActiveJobs = 0
    /\ isAuthenticated = FALSE
    /\ heartbeat = NoHeartbeat

\* setStatus of connection.ts, as the pair it stores.
setStatus(status, jobCount) == [currentStatus |-> status, activeJobs |-> jobCount]

\* The finally block's setStatus: if (_activeJobs === 0) setStatus('IDLE', 0),
\* given the pair stored so far.
StatusAfterJob(left, stored) == IF left = 0 THEN setStatus("IDLE", 0) ELSE stored

\* handleJobAssign up to its first await.
HandleJobAssign(message) ==
    /\ message \notin inFlight
    /\ _activeJobs < MaxInFlight
    /\ inFlight' = inFlight \cup {message}
    /\ _activeJobs' = _activeJobs + 1
    /\ currentStatus' = setStatus("BUSY", _activeJobs + 1).currentStatus
    /\ nodeActiveJobs' = setStatus("BUSY", _activeJobs + 1).activeJobs
    /\ UNCHANGED <<sent, isAuthenticated, heartbeat>>
    /\ UNCHANGED exceptNode

\* The tool or the sandbox returns (status SUCCESS or ERROR) or throws (the
\* catch block sends ERROR); getSocket()?.send sends when there is a socket.
JobAssignDone(message, status, hasSocket) ==
    /\ message \in inFlight
    /\ sent' = IF hasSocket THEN JobResultMessage(message, status) ELSE sent
    /\ inFlight' = inFlight \ {message}
    /\ _activeJobs' = _activeJobs - 1
    /\ LET stored == [currentStatus |-> currentStatus, activeJobs |-> nodeActiveJobs]
       IN /\ currentStatus' = StatusAfterJob(_activeJobs - 1, stored).currentStatus
          /\ nodeActiveJobs' = StatusAfterJob(_activeJobs - 1, stored).activeJobs
    /\ UNCHANGED <<isAuthenticated, heartbeat>>
    /\ UNCHANGED exceptNode

\* The HEARTBEAT payload sendHeartbeat builds; executing is the number of
\* handleJobAssign invocations that have not finished when it is sent.
HeartbeatMessage ==
    [sent |-> TRUE, status |-> currentStatus, activeJobs |-> nodeActiveJobs,
     executing |-> Cardinality(inFlight)]

\* AUTH_ACK with success: handleAuthAck sets isAuthenticated and
\* startHeartbeat sends the first HEARTBEAT at once.
HandleAuthAck ==
    /\ ~isAuthenticated
    /\ isAuthenticated' = TRUE
    /\ heartbeat' = HeartbeatMessage
    /\ UNCHANGED <<inFlight, _activeJobs, sent, currentStatus, nodeActiveJobs>>
    /\ UNCHANGED exceptNode

\* The heartbeat interval fires: sendHeartbeat returns early unless the
\* worker is authenticated on an open socket.
SendHeartbeat ==
    /\ isAuthenticated
    /\ heartbeat' = HeartbeatMessage
    /\ UNCHANGED <<inFlight, _activeJobs, sent, currentStatus, nodeActiveJobs, isAuthenticated>>
    /\ UNCHANGED exceptNode

\* The socket closes (or a fatal ERROR arrives): cleanup().
cleanup ==
    /\ isAuthenticated
    /\ isAuthenticated' = FALSE
    /\ currentStatus' = "IDLE"
    /\ nodeActiveJobs' = 0
    /\ UNCHANGED <<inFlight, _activeJobs, sent, heartbeat>>
    /\ UNCHANGED exceptNode

\* The worker's connection: authentication, heartbeats, disconnects.
LinkNext == HandleAuthAck \/ SendHeartbeat \/ cleanup

NodeNext ==
    \/ \E message \in AssignFrames : HandleJobAssign(message)
    \/ \E message \in AssignFrames, status \in ResultStatuses, hasSocket \in BOOLEAN :
           JobAssignDone(message, status, hasSocket)

\* ------------------------------------------------------------------------
\* Orchestrator: one query through executeMultiAgent
\* ------------------------------------------------------------------------
IdleMulti == [pc |-> "idle", selectedAgents |-> <<>>, stages |-> << >>, response |-> NoResponse]

OrchInit == multi = IdleMulti

KnownSelected(selectedAgents) ==
    {selectedAgents[i] : i \in 1..Len(selectedAgents)} \cap AGENTS

\* Step 1 of executeMultiAgent: await analyzeIntent.
AnalyzeIntent(plannerOut, matched) ==
    /\ multi.pc = "idle"
    /\ multi' = [multi EXCEPT !.pc = "selected",
                              !.selectedAgents = analyzeIntent(plannerOut, matched)]
    /\ UNCHANGED exceptOrch

\* Steps 2 and 3: the selected agents run, each meeting the failure stages
\* says, and the response is built.
ExecuteAgents(stages) ==
    /\ multi.pc = "selected"
    /\ multi' = [multi EXCEPT
                     !.pc = "done",
                     !.stages = stages,
                     !.response = executeMultiAgent(
                                      multi.selectedAgents,
                                      {a \in DOMAIN stages : CaughtByAgent(stages[a])})]
    /\ UNCHANGED exceptOrch

OrchNext ==
    \/ \E plannerOut \in PlannerOutputs, matched \in SUBSET AGENTS :
           AnalyzeIntent(plannerOut, matched)
    \/ \E stages \in [KnownSelected(multi.selectedAgents) -> Stages] : ExecuteAgents(stages)

\* ------------------------------------------------------------------------
\* Monitor: the centralized log buffer (monitor.ts)
\* ------------------------------------------------------------------------

MAX_LOGS == 500

\* addLog is followed at most this many times.
MaxAddLogs == 503

MonInit ==
    /\ logBuffer = << >>
    /\ logged = 0

\* The entry of the n-th addLog call.
LogEntry(n, level) == [n |-> n, level |-> level]

\* The level of the n-th call: every seventh one is an error.
LevelOf(n) == IF n % 7 = 0 THEN "ERROR" ELSE "INFO"

TrimBuffer_Never(buffer) == buffer

\* if (logBuffer.length > MAX_LOGS) logBuffer.shift()
TrimBuffer(buffer) == IF Len(buffer) > MAX_LOGS THEN Tail(buffer) ELSE buffer

addLog(level) ==
    /\ logged < MaxAddLogs
    /\ logged' = logged + 1
    /\ logBuffer' = TrimBuffer(Append(logBuffer, LogEntry(logged + 1, level)))
    /\ UNCHANGED exceptMon

MonNext == addLog(LevelOf(logged + 1))

\* ------------------------------------------------------------------------
\* Persistence: saveData and atomicWriteJson (payment/user-balance.ts)
\* ------------------------------------------------------------------------

BALANCES_FILE == "user-balances.json"
DEPOSITS_FILE == "processed-deposits.json"

\* filePath + '.tmp'
tempPath(filePath) ==
    IF filePath = BALANCES_FILE THEN "user-balances.json.tmp"
    ELSE "processed-deposits.json.tmp"

\* saveData is followed at most this many times.
MaxSaves == 3

\* The paths saveData writes with writeFileSync, in the order it writes them:
\* atomicWriteJson writes the temp path and then the file itself.
atomicWriteJson(filePath) == <<tempPath(filePath), filePath>>

WritePlan == atomicWriteJson(BALANCES_FILE) \o atomicWriteJson(DEPOSITS_FILE)

Paths == {WritePlan[i] : i \in 1..Len(WritePlan)}

Absent == [snapshot |-> 0, complete |-> FALSE, exists |-> FALSE]

NotSaving == [k |-> 0, writing |-> FALSE]

DiskInit ==
    /\ files = [p \in Paths |-> Absent]
    /\ savePc = NotSaving
    /\ saves = 0
    /\ crashed = FALSE

\* An operation has changed the ledger in memory and calls saveData.
SaveData ==
    /\ ~crashed
    /\ savePc = NotSaving
    /\ saves < MaxSaves
    /\ saves' = saves + 1
    /\ savePc' = [k |-> 1, writing |-> FALSE]
    /\ UNCHANGED <<files, crashed, exceptDisk>>

\* writeFileSync opens its path for writing: what the path held is gone and
\* the new text is on its way.
WriteOpen ==
    /\ ~crashed
    /\ savePc.k > 0
    /\ ~savePc.writing
    /\ files' = [files EXCEPT ![WritePlan[savePc.k]] =
                    [snapshot |-> saves, complete |-> FALSE, exists |-> TRUE]]
    /\ savePc' = [savePc EXCEPT !.writing = TRUE]
    /\ UNCHANGED <<saves, crashed, exceptDisk>>

\* writeFileSync returns: the whole text is in the path.
WriteDone ==
    /\ ~crashed
    /\ savePc.writing
    /\ files' = [files EXCEPT ![WritePlan[savePc.k]].complete = TRUE]
    /\ savePc' = IF savePc.k = Len(WritePlan) THEN NotSaving
                  ELSE [k |-> savePc.k + 1, writing |-> FALSE]
    /\ UNCHANGED <<saves, crashed, exceptDisk>>

\* writeFileSync throws part way (the disk is full, say): saveData's catch
\* logs the error and the remaining writes are skipped.
WriteThrows ==
    /\ ~crashed
    /\ savePc.writing
    /\ savePc' = NotSaving
    /\ UNCHANGED <<files, saves, crashed, exceptDisk>>

\* The process dies, wherever it is.
Crash ==
    /\ ~crashed
    /\ crashed' = TRUE
    /\ UNCHANGED <<files, savePc, saves, exceptDisk>>

\* The deposits a snapshot holds: the k-th saveData call is the one that
\* creditBalance makes for the k-th deposit, after processedDeposits.add, so
\* snapshot k has the credits and the txIds of deposits 1..k.
DepositsOf(snapshot) == 1..snapshot

\* loadData for one file: what it holds when it is there and JSON.parse
\* accepts it, nothing when it is absent or the parse fails (the catch logs).
loadData(filePath) ==
    IF files[filePath].exists /\ files[filePath].complete
    THEN DepositsOf(files[filePath].snapshot)
    ELSE {}

DiskNext ==
    \/ SaveData
    \/ WriteOpen
    \/ WriteDone
    \/ WriteThrows
    \/ Crash

Init == LedgerInit /\ DispatchInit /\ QueueInit /\ NodeInit /\ OrchInit /\ MonInit
            /\ DiskInit

Next == LedgerNext \/ ChatNext \/ DepositNext \/ DispatchNext \/ QueueNext \/ NodeNext \/ LinkNext
            \/ OrchNext
            \/ MonNext \/ DiskNext

Spec == Init /\ [][Next]_vars

\* The monitor's log buffer alone.
MonSpec == Init /\ [][MonNext]_vars

\* The two data files and the writes of saveData alone.
DiskSpec == Init /\ [][DiskNext]_vars

\* The ledger and its HTTP handlers alone.
LedgerSpec == Init /\ [][LedgerNext]_vars

\* The chat handler with malformed requests and orchestrator exceptions.
ChatSpec == Init /\ [][ChatNext]_vars

DepositSpec == Init /\ [][DepositNext]_vars

\* The orchestrator alone.
OrchSpec == Init /\ [][OrchNext]_vars

\* One worker's frames and the control plane's answers to them.
CorrelationNext == SessionNextOn({"s1"}, {"n1"}, TraceIds) \/ NodeNext

CorrelationSpec == Init /\ [][CorrelationNext]_vars

\* The worker connections and the dispatchers alone.
DispatchOnlyInit == Init /\ paymentsEnabled = TRUE

\* Both dispatchers with one worker.
DispatchOnlyNext ==
    \/ WorkerNextOn({"s1"}, {"n1"})
    \/ JobNextOn({"s1"}, {"default"}, {"none"})
    \/ AgentJobNextOn({"s1"})

DispatchSpec == DispatchOnlyInit /\ [][DispatchOnlyNext]_vars

\* POST /api/run and one worker, with every agent id and memory.
RunNext ==
    \/ WorkerNextOn({"s1"}, {"n1"})
    \/ JobNextOn({"s1"}, AgentIds, Memories)

RunSpec == DispatchOnlyInit /\ [][RunNext]_vars

\* Timers fire, and a settled promise resumes its awaiter.
DispatchFairNext ==
    \/ SessionNextOn({"s1"}, {"n1"}, {"tr1"})
    \/ JobNextOn({"s1"}, {"default"}, {"none"})

DispatchFairSpec ==
    /\ DispatchOnlyInit /\ [][DispatchFairNext]_vars
    /\ \A r \in RunIds : WF_vars(DispatchTimeout(r))
    /\ \A r \in RunIds : WF_vars(DispatchReturn(r))

\* POST /api/run with one worker socket and a second socket that connects but
\* may stay unauthenticated; result frames arrive on either.
OpenRunNext ==
    \/ WorkerNextOn(Sockets, {"n1"})
    \/ JobNextOn(Sockets, {"default"}, Memories)

OpenRunSpec == DispatchOnlyInit /\ [][OpenRunNext]_vars

\* POST /api/run with one worker whose heartbeats report it busy or idle.
BusySpec == DispatchOnlyInit /\ [][DispatchFairNext]_vars

\* POST /api/run for either agent id with two workers, one of which
\* advertises an agent type.
SelectionNext ==
    \/ WorkerNextOn(Sockets, NodeIds)
    \/ JobNextOn(Sockets, AgentIds, {"none"})

SelectionSpec == DispatchOnlyInit /\ [][SelectionNext]_vars

\* options.timeout values of POST /api/run, in ms: body.timeout is passed on
\* as it is.
DispatchTimeouts == {500, 1000, 1001, DEFAULT_DISPATCH_TIMEOUT}

\* POST /api/run with one worker, for callers that give a timeout.
TimeoutNext ==
    \/ WorkerNextOn({"s1"}, {"n1"})
    \/ \E r \in RunIds, timeout \in DispatchTimeouts : DispatchJobWithin(r, "default", timeout)
    \/ \E r \in RunIds : DispatchTimeout(r)
    \/ \E runId \in RunIds, status \in ResultStatuses :
          HandleJobResult("s1", runId, status, "none")
    \/ \E r \in RunIds : DispatchReturn(r)

TimeoutSpec == DispatchOnlyInit /\ [][TimeoutNext]_vars

\* One worker: its job handler and its connection.
WorkerLoadSpec == Init /\ [][NodeNext \/ LinkNext]_vars

\* Workers of one node id whose heartbeats may stop while time passes.
HeartbeatNext == SessionNextOn(Sockets, {"n1"}, {"tr1"}) \/ Elapse

HeartbeatSpec == DispatchOnlyInit /\ [][HeartbeatNext]_vars

\* The connection handlers alone, with two sockets and two node ids.
SessionNext == SessionNextOn(Sockets, NodeIds, {"tr1"})

SessionSpec == DispatchOnlyInit /\ [][SessionNext]_vars

\* Armed auth timers fire.
SessionFairSpec ==
    /\ SessionSpec
    /\ \A s \in Sockets : WF_vars(AuthTimeoutFire(s))

\* The job queue alone, under the calls of a dispatcher that marks running the
\* jobs dequeue handed to it.
QueueSpec == DispatchOnlyInit /\ [][QueueNext]_vars

\* ========================================================================
\* Properties
\* ========================================================================

C2_BalanceNonNegative ==
    \A k \in DOMAIN userBalances : userBalances[k].balance >= 0

\* Two chat requests passed the balance check, one was charged and the
\* deduction of the other was refused.
C2_Witness ==
    /\ paymentsEnabled
    /\ response.route = "chat" /\ response.status = 200
    /\ Len(response.result.agentResults) > 0
    /\ response.charge = 0
    /\ \E k \in DOMAIN userBalances :
          userBalances[k].totalSpent > 0 /\ userBalances[k].balance < queryPriceUSDC

C4_DepositOnce ==
    \A k \in DOMAIN userBalances :
        LET h == userBalances[k].depositHistory
        IN \A i, j \in 1..Len(h) : h[i] = h[j] => i = j

\* C5: a deposit call made after a call with the same tx returned success
\* answers 400 "Deposit already processed" and leaves the ledger unchanged.
C5_ReplayRejected ==
    (response.route = "deposit" /\ response.replay)
        => /\ response.status = 400
           /\ response.error = "Deposit already processed"
           /\ response.unchanged

C5_Witness ==
    /\ response.route = "deposit" /\ response.replay
    /\ response.status = 400
    /\ \E k \in DOMAIN userBalances : Len(userBalances[k].depositHistory) = 1

\* C6: the waiter of every dispatched runId and of every agent-job jobId is
\* settled at most once, whatever the order of deadline and result frames.
C6_AtMostOneOutcome ==
    /\ \A r \in RunIds : settles[r] <= 1
    /\ \A j \in AgentJobIds : agentSettles[j] <= 1

\* The deadline of a run fired after its result had been delivered, and an
\* agent job was answered.
C6_Witness ==
    /\ \E r \in RunIds : promise[r] = "fulfilled" /\ r \notin timers /\ settles[r] = 1
    /\ \E j \in AgentJobIds : agentPromise[j] = "fulfilled" /\ agentSettles[j] = 1

C8_LateReplyDiscarded ==
    [][/\ \A r \in RunIds :
            r \notin DOMAIN pendingJobs =>
                /\ settles'[r] = settles[r]
                /\ promise'[r] = promise[r] \/ r \in DOMAIN pendingJobs'
       /\ DOMAIN pendingJobs \subseteq DOMAIN pendingJobs' =>
             \A a \in DOMAIN agentStates : agentStates'[a] = agentStates[a]
       /\ discarded' # discarded =>
             UNCHANGED <<pendingJobs, promise, settles, agentStates, timers, call>>]_vars

\* A reply arrived for a run whose deadline had already passed.
C8_Witness ==
    /\ discarded = 1
    /\ \E r \in RunIds : promise[r] = "rejected" /\ r \notin DOMAIN pendingJobs

C11_RetriedThroughQueue ==
    \A r \in RunIds :
        (call[r].status = 503 /\ call[r].outcome = "timeout") =>
            /\ call[r].attempts = 3
            /\ \E i \in 1..Len(deadLetterQueue) :
                  deadLetterQueue[i].error = "Exceeded max retries (3)"

\* C12: no two registry entries share a nodeId, and no channel is registered
\* under more than one nodeId.
C12_RegistryBijection ==
    \A i, k \in 1..Len(registry) :
        i # k => /\ registry[i].nodeId # registry[k].nodeId
                 /\ registry[i].socket # registry[k].socket

\* C13: no registry entry refers to a channel that has closed.
C13_DeregisteredOnClose ==
    \A i \in 1..Len(registry) : conn[registry[i].socket] # "closed"

\* C14: a step that re-registers a nodeId with another channel closes the
\* channel it was registered with, if that one was open.
C14_ReRegistrationEvicts ==
    [][\A i \in 1..Len(registry) : \A k \in 1..Len(registry') :
          (/\ registry'[k].nodeId = registry[i].nodeId
           /\ registry'[k].socket # registry[i].socket
           /\ conn[registry[i].socket] = "open")
          => conn'[registry[i].socket] # "open"]_vars

\* C15: every registered node's channel received an AUTH with the node
\* secret; an AUTH that is refused is answered "Invalid credentials", leaves
\* the registry as it was and closes the channel.
C15_AuthGate ==
    /\ [](\A i \in 1..Len(registry) : registry[i].socket \in authed)
    /\ [][(lastReply' # lastReply /\ lastReply'.type = "AUTH_ACK") =>
             IF lastReply'.success
             THEN lastReply'.to \in authed'
             ELSE /\ lastReply'.text = "Invalid credentials"
                  /\ registry' = registry
                  /\ conn'[lastReply'.to] # "open"]_vars

\* A registered worker sent a second AUTH with a wrong secret.
C15_Witness ==
    /\ lastReply.type = "AUTH_ACK" /\ ~lastReply.success
    /\ \E i \in 1..Len(registry) : registry[i].socket = lastReply.to
    /\ conn[lastReply.to] = "closing"

\* C16: the auth timer of a socket fires at most once, only while no AUTH
\* with the node secret has arrived and the channel has not closed; it sends
\* ERROR{AUTH_TIMEOUT, fatal} and closes the channel; and an open channel
\* without a successful AUTH is eventually closed or authenticated.
C16_AuthDeadline ==
    /\ [](\A s \in Sockets : authFired[s] <= 1)
    /\ [][\A s \in Sockets :
            authFired'[s] # authFired[s] =>
                /\ s \notin authed
                /\ conn[s] # "closed"
                /\ conn'[s] = "closing"
                /\ lastReply' = sendError(s, "", "AUTH_TIMEOUT", TRUE)]_vars
    /\ \A s \in Sockets :
          (conn[s] = "open" /\ s \notin authed) ~> (conn[s] # "open" \/ s \in authed)

\* The deadline of a silent peer fired and its channel closed, while another
\* peer authenticated in time.
C16_Witness ==
    \E s, t \in Sockets :
        /\ authFired[s] = 1 /\ conn[s] = "closed" /\ s \notin authed
        /\ t \in authed /\ authFired[t] = 0 /\ conn[t] = "closed"

\* C17: a run is resolved only by a JOB_RESULT that arrived on a channel
\* which had completed AUTH with the node secret.
C17_ResultsOnlyFromReady ==
    \A r \in RunIds : resolvedBy[r] # "" => resolvedBy[r] \in authed

\* C18: a node whose last heartbeat is older than the stale threshold (plus
\* one tick for the scanner to run) is no longer ONLINE in the registry, so it
\* is in neither onlineNodes nor idleNodes, and no node stays registered
\* beyond the stale threshold plus heartbeatTimeout (plus one tick).
C18_StaleEviction ==
    \A i \in 1..Len(registry) :
        /\ registry[i].age > STALE_THRESHOLD + 1 => registry[i].status # "ONLINE"
        /\ registry[i].age <= STALE_THRESHOLD + heartbeatTimeout + 1

\* C19: with payments enabled, a chat request whose wallet has no record or a
\* balance below queryPrice never reaches the orchestrator; the 402 response
\* carries the required amount and the balance on record, and the step leaves
\* the balances, the processed deposits and the distributions as they were.
C19_InsufficientFunds ==
    [][\A c \in ChatIds :
          (paymentsEnabled /\ chat[c].pc = "idle" /\ chat'[c].pc # "idle") =>
              /\ chat'[c].pc = "executing" =>
                     BalanceOf(userBalances, chat'[c].wallet) >= queryPriceUSDC
              /\ chat'[c].pc = "done" =>
                     /\ response'.status \in {400, 402, 500}
                     /\ response'.status = 402 =>
                            /\ BalanceOf(userBalances, response'.wallet) < queryPriceUSDC
                            /\ response'.required = queryPriceUSDC
                            /\ response'.currentBalance =
                                   BalanceOf(userBalances, response'.wallet)
                     /\ LedgerSame
                     /\ paymentLedger' = paymentLedger]_vars

C19_Witness ==
    /\ response.route = "chat"
    /\ response.status = 402
    /\ response.currentBalance > 0
    /\ response.currentBalance < response.required

\* The distribution a chat step appended pays the orchestrator half of
\* queryPrice and each of the n agents used half of queryPrice divided by n
\* (amounts are fractions <<numerator, denominator>>, compared by cross
\* multiplication).
C20_SplitOf(ledger, agentsUsed) ==
    LET d == ledger[Len(ledger)]
        n == Len(agentsUsed)
    IN /\ d.totalAmount = queryPriceUSDC
       /\ d.orchestratorAmount[1] * 2 = queryPriceUSDC * d.orchestratorAmount[2]
       /\ Len(d.agentPayments) = n
       /\ \A i \in 1..n :
              /\ d.agentPayments[i].agentId = agentsUsed[i]
              /\ d.agentPayments[i].amount[1] * 2 * n =
                     queryPriceUSDC * d.agentPayments[i].amount[2]

C20_Charged(c) ==
    LET w == chat[c].wallet
    IN /\ BalanceOf(userBalances', w) = BalanceOf(userBalances, w) - queryPriceUSDC
       /\ Len(paymentLedger') = Len(paymentLedger) + 1
       /\ C20_SplitOf(paymentLedger', response'.result.agentsUsed)

\* C20 as stated: every chat query with payments enabled in which at least one
\* agent produced a non-error result lowers the wallet's balance by exactly
\* queryPrice and records a distribution with totalAmount = queryPrice,
\* orchestratorAmount = total * orchestratorShare and (total * agentShare) / n
\* for each of the n agents used.
C20_ChargeAndSplit ==
    [][\A c \in ChatIds :
          (/\ paymentsEnabled
           /\ chat[c].pc = "executing"
           /\ chat'[c].pc = "done"
           /\ NonErrorResults(response'.result) # {}) => C20_Charged(c)]_vars

\* C21: a distribution is recorded, and agents are credited, only in the step
\* of a query whose deductBalance returned true (the wallet held queryPrice and
\* the step takes it); a query whose deduction returns false records no
\* distribution and credits no agent.
C21_DistributeOnlyAfterDeduct ==
    [][/\ (paymentLedger' # paymentLedger \/ walletRegistry' # walletRegistry) =>
              \E c \in ChatIds :
                  /\ chat[c].pc = "executing"
                  /\ chat'[c].pc = "done"
                  /\ BalanceOf(userBalances, chat[c].wallet) >= queryPriceUSDC
                  /\ BalanceOf(userBalances', chat[c].wallet) =
                         BalanceOf(userBalances, chat[c].wallet) - queryPriceUSDC
                  /\ Len(paymentLedger') = Len(paymentLedger) + 1
                  /\ paymentLedger'[Len(paymentLedger')].from = chat[c].wallet
       /\ \A c \in ChatIds :
              (/\ chat[c].pc = "executing"
               /\ chat'[c].pc = "done"
               /\ BalanceOf(userBalances, chat[c].wallet) < queryPriceUSDC) =>
                  /\ paymentLedger' = paymentLedger
                  /\ walletRegistry' = walletRegistry
                  /\ userBalances' = userBalances]_vars

\* A query answered with agent results, uncharged because a concurrent query
\* of the same wallet took the balance first.
C21_Witness ==
    /\ paymentsEnabled
    /\ response.route = "chat"
    /\ response.status = 200
    /\ Len(response.result.agentResults) > 0
    /\ response.charge = 0
    /\ response.distributions = 0
    /\ Len(paymentLedger) = 1

C23_CorrelationPreserved ==
    /\ lastReply.type \in {"AUTH_ACK", "HEARTBEAT_ACK"} =>
           /\ lastReply.request \in TraceIds
           /\ lastReply.traceId = lastReply.request
    /\ sent.type = "JOB_RESULT" =>
           /\ sent.answers \in AssignFrames
           /\ sent.traceId = sent.answers.traceId
           /\ sent.jobId = sent.answers.jobId
           /\ sent.runId = sent.answers.runId

C23_Witness ==
    /\ lastReply.type = "HEARTBEAT_ACK"
    /\ lastReply.traceId = "tr2"
    /\ sent.type = "JOB_RESULT"
    /\ sent.status = "ERROR"
    /\ sent.traceId = "tr1"
    /\ _activeJobs = 1

\* C24: executeMultiAgent runs at most three agents for a query, whether the
\* selection came from the intent planner or from the keyword fallback.
C24_SelectionCap ==
    multi.pc = "done" => Len(multi.response.agentResults) <= 3

\* C25: a failure inside one agent, at any stage, gives that agent a result
\* whose summary begins with "Error: " and never aborts the query:
\* executeMultiAgent returns a result for every selected known agent, and an
\* agent that met no failure has the result it has when no agent fails.
C25_AgentFailureIsolation ==
    (multi.pc = "done" /\ Len(multi.selectedAgents) > 0) =>
        LET results == multi.response.agentResults
            known == SelectSeq(multi.selectedAgents, IsKnownAgent)
        IN /\ multi.response.success
           /\ Len(results) = Len(known)
           /\ \A i \in 1..Len(results) :
                  /\ results[i].agentId = known[i]
                  /\ multi.stages[known[i]] # "none" => results[i].isError
                  /\ multi.stages[known[i]] = "none" =>
                         results[i] = executeMultiAgent(multi.selectedAgents, {}).agentResults[i]

\* C26: the log buffer never holds more than MAX_LOGS entries, and it holds
\* exactly the most recent addLog entries, oldest first: once the buffer is
\* full every addLog drops the oldest entry and nothing else.
C26_LogRing ==
    LET kept == IF logged < MAX_LOGS THEN logged ELSE MAX_LOGS
    IN /\ Len(logBuffer) = kept
       /\ Len(logBuffer) <= MAX_LOGS
       /\ \A i \in 1..Len(logBuffer) :
              logBuffer[i] = LogEntry(logged - kept + i, LevelOf(logged - kept + i))

\* The full buffer has taken further entries: the first ones are gone.
C26_Witness ==
    /\ logged > MAX_LOGS + 1
    /\ Len(logBuffer) = MAX_LOGS
    /\ logBuffer[1].n = logged - MAX_LOGS + 1

\* C27: at every instant, a crash inside a write included, each of the
\* balances file and the processed-deposits file is either not there yet or
\* holds the complete snapshot of some saveData call, never a partial one.
C27_CrashConsistency ==
    \A filePath \in {BALANCES_FILE, DEPOSITS_FILE} :
        files[filePath].exists => files[filePath].complete

\* C28: a dispatchJob call that finds an idle node assigns the job to an idle
\* node advertising the call's agent id when there is one, and to the first
\* idle node only when there is none.
C28_AgentAwareSelection ==
    [][\A r \in RunIds :
          (call[r].pc = "idle" /\ call'[r].pc = "awaiting") =>
              LET agentId == pendingJobs'[r].agentId
                  advertising == {n \in NodeIds :
                                     /\ agentId \in NodeAgentTypes(n)
                                     /\ \E i \in 1..Len(registry) :
                                            /\ registry[i].nodeId = n
                                            /\ registry[i].status = "ONLINE"
                                            /\ registry[i].activeJobs = 0}
              IN IF advertising # {}
                 THEN pendingJobs'[r].nodeId \in advertising
                 ELSE pendingJobs'[r].nodeId = getIdleNodes(registry)[1].nodeId]_vars

\* C29: a dispatchJob call made while no registered node is ONLINE with
\* activeJobs = 0 returns "No idle nodes available" at once: it creates no
\* result promise for a run id, no pending entry, no timer and no agent
\* state, sends no JOB_ASSIGN frame, and POST /api/run answers 503.
C29_NoIdleNode ==
    [][\A r \in RunIds :
          (/\ call[r].pc = "idle"
           /\ call'[r].pc # "idle"
           /\ ~\E i \in 1..Len(registry) :
                   registry[i].status = "ONLINE" /\ registry[i].activeJobs = 0) =>
              /\ call'[r].pc = "returned"
              /\ call'[r].outcome = "No idle nodes available"
              /\ call'[r].status = 503
              /\ call'[r].attempts = 0
              /\ promise'[r] = "none"
              /\ pendingJobs' = pendingJobs
              /\ timers' = timers
              /\ agentStates' = agentStates]_vars

\* A call was turned away while the only registered node reported a job.
C29_Witness ==
    \E r \in RunIds :
        /\ call[r].outcome = "No idle nodes available"
        /\ call[r].status = 503
        /\ Len(registry) = 1
        /\ registry[1].activeJobs = 1
        /\ \E q \in RunIds : call[q].outcome = "" /\ call[q].pc = "idle"

\* C30: dequeue(capabilities) returns the earliest pending job whose
\* requiredCapabilities are all among capabilities, as it was queued
\* (retryCount included), and removes it and nothing else, the other pending
\* jobs keeping their order; when no pending job matches it returns null and
\* the queue stays as it was.
C30_CapabilityFifo ==
    [][/\ dequeued'.called =>
              LET capabilities == dequeued'.capabilities
                  matching == {i \in 1..Len(pendingQueue) :
                                  jobs[pendingQueue[i]].requiredCapabilities \subseteq capabilities}
              IN /\ matching # {}
                 /\ LET first == CHOOSE i \in matching : \A k \in matching : i <= k
                    IN /\ dequeued'.returned = jobs[pendingQueue[first]]
                       /\ jobs' = jobs
                       /\ Len(pendingQueue') = Len(pendingQueue) - 1
                       /\ \A i \in 1..Len(pendingQueue') :
                              pendingQueue'[i] = pendingQueue[IF i < first THEN i ELSE i + 1]
       /\ \A capabilities \in CapabilitySets :
              (/\ \A i \in 1..Len(pendingQueue) :
                      ~(jobs[pendingQueue[i]].requiredCapabilities \subseteq capabilities)
               /\ Dequeue(capabilities)) =>
                  /\ ~dequeued'.called
                  /\ pendingQueue' = pendingQueue
                  /\ jobs' = jobs]_vars

\* dequeue passed over the job queued first, which asks for more than the
\* caller offers, and returned the second job, already retried once.
C30_Witness ==
    /\ dequeued.returned.runId = 2
    /\ dequeued.returned.retryCount = 1
    /\ 2 \in inHand
    /\ pendingQueue = <<1>>
    /\ jobs[1].retryCount = 0
    /\ ~(jobs[1].requiredCapabilities \subseteq dequeued.capabilities)

\* C31: a result reported for an attempt that timed out does not complete a
\* later attempt of the job. The report of the earlier attempt is the call
\* markComplete(runId, ...) with the run id that attempt was given, and the
\* job markTimeout requeued keeps its run id: once the job has timed out, was
\* dequeued and is running again, such a call leaves its record in the
\* running map.
C31_AttemptIsolation ==
    [][\A r \in QueueRunIds, success \in BOOLEAN :
          (/\ timedOut[r] >= 1
           /\ runs[r] = timedOut[r] + 1
           /\ RunningIndex(runningJobs, r) # 0
           /\ MarkComplete(r, success)) =>
              RunningIndex(runningJobs', r) # 0]_vars

\* C32: markTimeout and markComplete called with a run id that has no record
\* in the running map (completed, timed out and requeued, dead-lettered or
\* unknown) change nothing: no step that changes a job's retry count, the
\* pending queue, the running or completed map or the dead-letter queue is
\* such a call. Hence no attempt is timed out twice, however often
\* checkTimeouts scans: a job has been timed out at most as often as it was
\* marked running.
C32_IdempotentTimeout ==
    [][/\ (\/ jobs' # jobs
            \/ pendingQueue' # pendingQueue
            \/ runningJobs' # runningJobs
            \/ completedJobs' # completedJobs
            \/ deadLetterQueue' # deadLetterQueue) =>
              \A runId \in QueueRunIds \cup {UnknownRun} :
                  (\A i \in 1..Len(runningJobs) : runningJobs[i].runId # runId) =>
                      /\ ~MarkTimeout(runId)
                      /\ \A success \in BOOLEAN : ~MarkComplete(runId, success)
       /\ \A r \in QueueRunIds : timedOut'[r] <= runs'[r]]_vars

\* One job was completed, another went through all its attempts and is in
\* the dead-letter queue: any markTimeout or markComplete call made now names
\* a run that is not running.
C32_Witness ==
    /\ runningJobs = <<>>
    /\ pendingQueue = <<>>
    /\ \E r \in DOMAIN completedJobs : runs[r] = timedOut[r] + 1
    /\ \E i \in 1..Len(deadLetterQueue) :
           LET r == deadLetterQueue[i].runId
           IN timedOut[r] = DEFAULT_MAX_RETRIES /\ runs[r] = DEFAULT_MAX_RETRIES

C34_NoFreeQueries ==
    [][\A c \in ChatIds :
          (/\ paymentsEnabled
           /\ chat[c].pc = "executing"
           /\ chat'[c].pc = "done"
           /\ response'.status = 200
           /\ response'.result.success
           /\ Len(response'.result.agentResults) > 0) =>
              BalanceOf(userBalances', chat[c].wallet) =
                  BalanceOf(userBalances, chat[c].wallet) - queryPriceUSDC]_vars

\* C35: a pending run is resolved only by a JOB_RESULT that arrives on the
\* channel of the node the job was assigned to. In particular a frame naming
\* the run id that arrives on the channel of another registered node does not
\* resolve the run.
C35_ResultsFromAssignedNode ==
    [][\A r \in RunIds :
          (/\ promise[r] = "pending"
           /\ promise'[r] \in {"fulfilled", "fulfilled-error"}
           /\ findNodeIdBySocket(registry, resolvedBy'[r]) # "") =>
              findNodeIdBySocket(registry, resolvedBy'[r]) = pendingJobs[r].nodeId]_vars


\* C36: at any instant at most one pending dispatcher entry refers to a given
\* nodeId: no two runs whose JOB_ASSIGN is unanswered and whose deadline has
\* not fired were assigned to the same node.
C36_OneRunPerNode ==
    \A r1 \in DOMAIN pendingJobs, r2 \in DOMAIN pendingJobs :
        r1 # r2 => pendingJobs[r1].nodeId # pendingJobs[r2].nodeId


\* C40: the timeout carried in every JOB_ASSIGN is positive and strictly less
\* than the dispatcher's own deadline for that run, for every timeout value
\* dispatchJob accepts.
C40_WorkerTimeoutValid ==
    \A r \in RunIds :
        jobAssign[r].sent =>
            /\ jobAssign[r].timeout > 0
            /\ jobAssign[r].timeout < jobAssign[r].deadline


\* C39: the activeJobs value a worker sends in HEARTBEAT equals the number of
\* JOB_ASSIGN jobs it is executing when it sends it, and the status it sends
\* is IDLE exactly when that number is 0.
C39_ReportedLoad ==
    heartbeat.sent =>
        /\ heartbeat.activeJobs = heartbeat.executing
        /\ (heartbeat.status = "IDLE") <=> (heartbeat.executing = 0)


\* C38: every agentId that receives an agent payment in a recorded
\* distribution has an entry in that query's agentResults whose summary does
\* not begin with "Error: "; agent ids that are not in the catalogue, and
\* agents that failed, are not paid.
C38_PaidAgentsRan ==
    [][Len(paymentLedger') > Len(paymentLedger) =>
          LET distribution == paymentLedger'[Len(paymentLedger')]
              agentResults == response'.result.agentResults
          IN \A i \in 1..Len(distribution.agentPayments) :
                 \E k \in 1..Len(agentResults) :
                     /\ agentResults[k].agentId = distribution.agentPayments[i].agentId
                     /\ ~agentResults[k].isError]_vars


\* C37: when the process has crashed at any point during persistence and
\* restarts from disk, every txId whose credit is in the reloaded balances is
\* also in the reloaded processed-deposit set.
C37_CrashIdempotency ==
    crashed => loadData(BALANCES_FILE) \subseteq loadData(DEPOSITS_FILE)

====
